---------------------------- MODULE Spec2Model ----------------------------
(***************************************************************************)
(* Model of bot/handlers.py of the aiogram support bot: the in-memory      *)
(* mute/ban registries, the duration parser, the message handlers and the  *)
(* background task check_mute_expirations.                                  *)
(*                                                                         *)
(* Scheduling.  Everything runs on one asyncio event loop, so code between *)
(* two awaits is one atomic step and other tasks run only while a task is  *)
(* suspended at an await.  Every action below is one such atomic section.  *)
(*                                                                         *)
(* Time.  The clock counts minutes; asyncio.sleep(60) is one tick.  The    *)
(* clock value saturates at MaxTime (timers keep running).                 *)
(*                                                                         *)
(* Text.  A duration argument is a sequence of one-character strings; the  *)
(* Cyrillic markers of the source are written "h" (hours marker) and "m"   *)
(* (minutes marker).                                                       *)
(***************************************************************************)
EXTENDS Integers, Sequences, FiniteSets, TLC

VARIABLES
    now,            \* datetime.now(), in minutes
    muted_users,    \* dict user_id -> (unmute_time, reason), insertion ordered
    banned_users,   \* dict user_id -> reason
    sweep_pc,       \* position of check_mute_expirations
    expired_users,  \* its local list expired_users
    sweep_i,        \* index of the current iteration of "for user_id in expired_users"
    sleep_left,     \* ticks left of the pending asyncio.sleep(60)
    sweep_log,      \* logger records of the sweeper's last step in a running cycle
    task,           \* the message handler in flight
    duration_str,   \* argument of a stand-alone parse_duration call
    parse_result    \* its return value

regVars   == <<muted_users, banned_users>>
sweepVars == <<sweep_pc, expired_users, sweep_i, sleep_left, sweep_log>>
parseVars == <<duration_str, parse_result>>
vars == <<now, muted_users, banned_users, sweep_pc, expired_users, sweep_i,
          sleep_left, sweep_log, task, duration_str, parse_result>>

---------------------------------------------------------------------------
(* Bounds of the model *)

MaxTime == 2        \* the clock runs 0..MaxTime and then saturates
MaxLen == 4         \* longest duration string given to parse_duration alone

Users == {1, 2}     \* telegram user ids

(* Program constants *)

DefaultMinutes == 60    \* "по умолчанию 1 час"
MaxMinutes == 1440      \* 24 hours
MinutesPerHour == 60
SleepInterval == 1      \* asyncio.sleep(60): 60 seconds, one tick

Min(S) == CHOOSE x \in S : \A y \in S : x <= y

---------------------------------------------------------------------------
(* parse_duration *)

Digits == {"0", "1", "2", "9"}
Chars == Digits \cup {"h", "m", "-"}

DigitVal(c) == CASE c = "0" -> 0 [] c = "1" -> 1 [] c = "2" -> 2 [] c = "9" -> 9

RECURSIVE DecVal(_)
\* int() of a run of decimal digits
DecVal(s) ==
    IF s = <<>> THEN 0
    ELSE 10 * DecVal(SubSeq(s, 1, Len(s) - 1)) + DigitVal(s[Len(s)])

\* re.search(r'(\d+)<mark>', s): the leftmost match; \d+ is greedy, so the
\* group is the whole digit run that ends right before the first marker
\* that follows a digit.
ReSearch(s, mark) ==
    LET ends == {i \in 2..Len(s) : s[i] = mark /\ s[i-1] \in Digits}
    IN  IF ends = {} THEN [matched |-> FALSE, group |-> 0]
        ELSE LET e == Min(ends)
                 b == Min({k \in 1..(e-1) : \A q \in k..(e-1) : s[q] \in Digits})
             IN  [matched |-> TRUE, group |-> DecVal(SubSeq(s, b, e - 1))]

\* int(duration_str): an optional sign and at least one digit, else ValueError
PyInt(s) ==
    LET neg  == Len(s) >= 1 /\ s[1] = "-"
        body == IF neg THEN Tail(s) ELSE s
    IN  IF body # <<>> /\ \A i \in DOMAIN body : body[i] \in Digits
        THEN [ok |-> TRUE, value |-> IF neg THEN 0 - DecVal(body) ELSE DecVal(body)]
        ELSE [ok |-> FALSE, value |-> 0]

Part(n, unit) == [n |-> n, unit |-> unit]

\* a faulty variant of ClampMinutes: the upper limit is not applied
ClampMinutes_unbounded(total_minutes) == total_minutes

\* total_minutes = min(total_minutes, 1440)
ClampMinutes(total_minutes) ==
    IF total_minutes < MaxMinutes THEN total_minutes ELSE MaxMinutes

\* the "if total_minutes == 0" fallback: the whole string as hours, else the default
BareFallback(s, time_parts) ==
    LET v == PyInt(s)
    IN  IF v.ok
        THEN [total |-> v.value * MinutesPerHour,
              parts |-> Append(time_parts, Part(v.value, "h"))]
        ELSE [total |-> DefaultMinutes,
              parts |-> Append(time_parts, Part(1, "h"))]

parse_duration(s) ==
    IF s = <<>> THEN [minutes |-> DefaultMinutes, display |-> <<Part(1, "hour")>>]
    ELSE
    LET hours_match   == ReSearch(s, "h")
        total1 == IF hours_match.matched THEN hours_match.group * MinutesPerHour ELSE 0
        parts1 == IF hours_match.matched THEN <<Part(hours_match.group, "h")>> ELSE <<>>
        minutes_match == ReSearch(s, "m")
        total2 == IF minutes_match.matched THEN total1 + minutes_match.group ELSE total1
        parts2 == IF minutes_match.matched
                  THEN Append(parts1, Part(minutes_match.group, "m")) ELSE parts1
        fb     == IF total2 = 0 THEN BareFallback(s, parts2)
                  ELSE [total |-> total2, parts |-> parts2]
    IN  [minutes |-> ClampMinutes(fb.total), display |-> fb.parts]

StrsUpTo(n) == UNION {[1..k -> Chars] : k \in 0..n}
\* parse_result before the call
NotParsed == [returned |-> FALSE, minutes |-> 0, display |-> <<>>]


---------------------------------------------------------------------------
(* The registries *)

\* the keys of the dict muted_users
Keys(mu) == {mu[i].user_id : i \in DOMAIN mu}

\* muted_users[user_id]
Get(mu, user_id) == mu[CHOOSE i \in DOMAIN mu : mu[i].user_id = user_id]

\* muted_users[user_id] = (unmute_time, reason): a present key keeps its
\* place in the iteration order, a new key goes last
Put(mu, user_id, unmute_time, reason) ==
    LET rec == [user_id |-> user_id, unmute_time |-> unmute_time, reason |-> reason]
    IN  IF user_id \in Keys(mu)
        THEN [i \in DOMAIN mu |-> IF mu[i].user_id = user_id THEN rec ELSE mu[i]]
        ELSE Append(mu, rec)

\* del muted_users[user_id]
Del(mu, user_id) == SelectSeq(mu, LAMBDA r : r.user_id # user_id)

\* del banned_users[user_id]
DelBan(bu, user_id) == [u \in (DOMAIN bu) \ {user_id} |-> bu[u]]

\* banned_users[user_id] = reason
PutBan(bu, user_id, reason) ==
    [u \in (DOMAIN bu) \cup {user_id} |-> IF u = user_id THEN reason ELSE bu[u]]

\* "datetime.now() < unmute_time"
StillMuted(t, unmute_time) == t < unmute_time

\* a faulty variant of is_user_muted: an expired record is reported and kept
is_user_muted_no_gc(mu, user_id, t) ==
    [ret |-> user_id \in Keys(mu), muted_users |-> mu]

\* is_user_muted: its return value and the dict it leaves behind
is_user_muted(mu, user_id, t) ==
    IF user_id \in Keys(mu)
    THEN IF StillMuted(t, Get(mu, user_id).unmute_time)
         THEN [ret |-> TRUE,  muted_users |-> mu]
         ELSE [ret |-> FALSE, muted_users |-> Del(mu, user_id)]
    ELSE [ret |-> FALSE, muted_users |-> mu]

\* a faulty variant of is_user_banned: nobody counts as banned
is_user_banned_never(bu, user_id) == FALSE

is_user_banned(bu, user_id) == user_id \in DOMAIN bu

\* hours, minutes of the remaining time and the f-string that shows them
TimeStr(remaining) ==
    LET hours   == remaining \div MinutesPerHour
        minutes == remaining % MinutesPerHour
    IN  IF hours > 0 THEN <<hours, minutes>> ELSE <<minutes>>

---------------------------------------------------------------------------
(* Messages and handler tasks *)

\* one call of the platform API: the chat it goes to and what it says
Msg(to, text, reason, time, until, err) ==
    [to |-> to, text |-> text, reason |-> reason, time |-> time,
     until |-> until, err |-> err]

NoMsg == Msg("", "", "", <<>>, 0, "")

Task(kind, user, pc, path, msg) ==
    [kind |-> kind, user |-> user, pc |-> pc, path |-> path, msg |-> msg]

\* the slot after a handler returned, and after one ended with an exception
\* that went up to the dispatcher
Done(kind)   == Task("none", 0, "done", "", NoMsg)
Raised(kind) == Task("none", 0, "raised", "", NoMsg)

\* no handler is suspended: the dispatcher can start the next one
Free == task.pc \in {"done", "raised"}

\* TelegramAPIError.message
ApiErrors == {"Forbidden: bot was blocked by the user"}
ApiResults == {"ok"} \cup ApiErrors

DefaultBanReason  == "Blocked by administrator"
DefaultMuteReason == "Rule violation"
ReasonArgs == {"spam"}

\* the replied-to message: it carries a tg://user?id= link or it does not
ReplyTo == [has_id : {TRUE}, id : Users] \cup {[has_id |-> FALSE, id |-> 0]}

\* extract_user_id: the id, or ValueError
extract_user_id(reply_to) == [ok |-> reply_to.has_id, user_id |-> reply_to.id]

\* duration arguments an admin gives to /mute in the full model
MuteDurationArgs ==
    { <<"1", "m">>, <<"0">> }

\* message.text of an admin command, split as handle_admin_commands splits it
CommandTexts ==
    [command : {"/ban"}, args : {<<>>} \cup {<<r>> : r \in ReasonArgs}]
    \cup [command : {"/mute"},
          args : {<<>>} \cup {<<d>> : d \in MuteDurationArgs}
                 \cup {<<d, r>> : d \in MuteDurationArgs, r \in ReasonArgs}]
    \cup [command : {"/unmute", "/unban", "/kick"}, args : {<<>>}]

---------------------------------------------------------------------------
(* The relay gate of command_start, send_message_to_group, supported_media *)

\* a faulty variant of Gate: another task runs between the check and the
\* lookup and removes the record that is_user_muted has just reported
Gate_interleaved(bu, mu, user_id, t) ==
    IF is_user_banned(bu, user_id)
    THEN [path |-> "banned", muted_users |-> mu,
          msg |-> Msg("sender", "you are banned", bu[user_id], <<>>, 0, "")]
    ELSE LET m == is_user_muted(mu, user_id, t)
         IN  IF m.ret
             THEN [path |-> "KeyError", muted_users |-> Del(m.muted_users, user_id),
                   msg |-> NoMsg]
             ELSE [path |-> IF user_id \in Keys(mu) THEN "expired" ELSE "pass",
                   muted_users |-> m.muted_users, msg |-> NoMsg]

\* The ban check and the mute check the three private-chat handlers start
\* with: the branch taken, the reply of a blocked sender, and the dict
\* is_user_muted leaves behind.  The lookup "muted_users[user_id]" after a
\* true is_user_muted raises KeyError when the key is not in the dict.
Gate(bu, mu, user_id, t) ==
    IF is_user_banned(bu, user_id)
    THEN [path |-> "banned", muted_users |-> mu,
          msg |-> Msg("sender", "you are banned", bu[user_id], <<>>, 0, "")]
    ELSE LET m == is_user_muted(mu, user_id, t)
         IN  IF m.ret /\ user_id \notin Keys(m.muted_users)
             THEN [path |-> "KeyError", muted_users |-> m.muted_users, msg |-> NoMsg]
             ELSE IF m.ret
             THEN LET rec == Get(m.muted_users, user_id)
                  IN  [path |-> "muted", muted_users |-> m.muted_users,
                       msg |-> Msg("sender", "you are muted", rec.reason,
                                   TimeStr(rec.unmute_time - t), 0, "")]
             ELSE [path |-> IF user_id \in Keys(mu) THEN "expired" ELSE "pass",
                   muted_users |-> m.muted_users, msg |-> NoMsg]

\* the handler is left by the KeyError of the lookup
GateRaised(kind, user_id) == Task(kind, user_id, "raised", "KeyError", NoMsg)

Blocked(g) == g.path \in {"banned", "muted"}

\* /start in any chat
CommandStart(user_id) ==
    /\ Free
    /\ LET g == Gate(banned_users, muted_users, user_id, now)
       IN  /\ muted_users' = g.muted_users
           /\ task' = IF g.path = "KeyError" THEN GateRaised("start", user_id)
                      ELSE Task("start", user_id, "await_reply", g.path,
                                IF Blocked(g) THEN g.msg
                                ELSE Msg("sender", "greeting", "", <<>>, 0, ""))
    /\ UNCHANGED <<now, banned_users, sweepVars, parseVars>>

\* a text message in a private chat
SendMessageToGroup(user_id, too_long) ==
    /\ Free
    /\ LET g == Gate(banned_users, muted_users, user_id, now)
       IN  /\ muted_users' = g.muted_users
           /\ task' = IF g.path = "KeyError" THEN GateRaised("text", user_id)
                      ELSE IF Blocked(g)
                      THEN Task("text", user_id, "await_reply", g.path, g.msg)
                      ELSE IF too_long
                      THEN Task("text", user_id, "await_reply", g.path,
                                Msg("sender", "message too long", "", <<>>, 0, ""))
                      ELSE Task("text", user_id, "await_send_group", g.path,
                                Msg("group", "forward", "", <<>>, 0, ""))
    /\ UNCHANGED <<now, banned_users, sweepVars, parseVars>>

\* a media message in a private chat
SupportedMedia(user_id, too_long) ==
    /\ Free
    /\ LET g == Gate(banned_users, muted_users, user_id, now)
       IN  /\ muted_users' = g.muted_users
           /\ task' = IF g.path = "KeyError" THEN GateRaised("media", user_id)
                      ELSE IF Blocked(g)
                      THEN Task("media", user_id, "await_reply", g.path, g.msg)
                      ELSE IF too_long
                      THEN Task("media", user_id, "await_reply", g.path,
                                Msg("sender", "caption too long", "", <<>>, 0, ""))
                      ELSE Task("media", user_id, "await_copy_group", g.path,
                                Msg("group", "forward", "", <<>>, 0, ""))
    /\ UNCHANGED <<now, banned_users, sweepVars, parseVars>>

---------------------------------------------------------------------------
(* Staff-group handlers *)

ExtractErrorReply(kind) ==
    Task(kind, 0, "await_reply", "no id",
         Msg("invoker", "cannot extract id", "", <<>>, 0, ""))

\* /info as a reply: up to "await bot.get_chat(user_id)"
GetUserInfo(reply_to) ==
    /\ Free
    /\ LET x == extract_user_id(reply_to)
       IN  task' = IF x.ok THEN Task("info", x.user_id, "await_get_chat", "", NoMsg)
                   ELSE ExtractErrorReply("info")
    /\ UNCHANGED <<now, regVars, sweepVars, parseVars>>

\* the status computation of /info: the status line and the dict left behind
InfoStatus(bu, mu, user_id, t) ==
    IF user_id \in DOMAIN bu
    THEN [path |-> "banned", muted_users |-> mu,
          msg |-> Msg("invoker", "info: banned", bu[user_id], <<>>, 0, "")]
    ELSE IF user_id \in Keys(mu)
    THEN LET rec == Get(mu, user_id)
         IN  IF StillMuted(t, rec.unmute_time)
             THEN [path |-> "muted", muted_users |-> mu,
                   msg |-> Msg("invoker", "info: muted", "",
                               TimeStr(rec.unmute_time - t), rec.unmute_time, "")]
             ELSE [path |-> "expired", muted_users |-> Del(mu, user_id),
                   msg |-> Msg("invoker", "info: no restrictions", "", <<>>, 0, "")]
    ELSE [path |-> "pass", muted_users |-> mu,
          msg |-> Msg("invoker", "info: no restrictions", "", <<>>, 0, "")]

\* /info after get_chat: the profile arrives or TelegramAPIError is raised
GetChatReturns(result) ==
    /\ task.pc = "await_get_chat"
    /\ IF result = "ok"
       THEN LET st == InfoStatus(banned_users, muted_users, task.user, now)
            IN  /\ muted_users' = st.muted_users
                /\ task' = Task("info", task.user, "await_reply", st.path, st.msg)
       ELSE /\ task' = Task("info", task.user, "await_reply", "not found",
                            Msg("invoker", "cannot find user", "", <<>>, 0, result))
            /\ UNCHANGED muted_users
    /\ UNCHANGED <<now, banned_users, sweepVars, parseVars>>

\* a staff reply that is not a command: copied to the user
SendMessageAnswer(reply_to) ==
    /\ Free
    /\ LET x == extract_user_id(reply_to)
       IN  task' = IF x.ok
                   THEN Task("answer", x.user_id, "await_copy_user", "",
                             Msg("target", "answer", "", <<>>, 0, ""))
                   ELSE ExtractErrorReply("answer")
    /\ UNCHANGED <<now, regVars, sweepVars, parseVars>>

---------------------------------------------------------------------------
(* handle_admin_commands: a reply in the staff group that starts with "/" *)

\* a faulty variant of BanEffect: the ban is stored, the mute record is left
BanEffect_keeps_mute(bu, mu, user_id, reason) ==
    [banned_users |-> PutBan(bu, user_id, reason), muted_users |-> mu]

\* /ban: "banned_users[user_id] = reason" and the removal of the mute record
BanEffect(bu, mu, user_id, reason) ==
    [banned_users |-> PutBan(bu, user_id, reason),
     muted_users  |-> IF user_id \in Keys(mu) THEN Del(mu, user_id) ELSE mu]

Ban(user_id, args) ==
    LET reason == IF Len(args) > 0 THEN args[1] ELSE DefaultBanReason
        e      == BanEffect(banned_users, muted_users, user_id, reason)
    IN  /\ banned_users' = e.banned_users
        /\ muted_users' = e.muted_users
        /\ task' = Task("ban", user_id, "await_notify",
                        IF user_id \in Keys(muted_users) THEN "mute cleared" ELSE "no mute",
                        Msg("target", "you were banned", reason, <<>>, 0, ""))

\* a faulty variant of MuteRefused: a banned target is muted all the same
MuteRefused_never(bu, user_id) == FALSE

\* /mute: "if user_id in banned_users"
MuteRefused(bu, user_id) == user_id \in DOMAIN bu

\* a faulty variant of MuteDuration: the handler's default is not applied
MuteDuration_as_parsed(d) == parse_duration(d)

\* /mute: the minutes and the display of the duration argument, with the
\* handler's own default for a result <= 0
MuteDuration(d) ==
    LET p == parse_duration(d)
    IN  IF p.minutes <= 0
        THEN [minutes |-> DefaultMinutes, display |-> <<Part(1, "h")>>]
        ELSE p

\* a faulty variant of MuteUntil: the time left of the old mute is added
MuteUntil_accumulates(mu, user_id, t, total_minutes) ==
    IF user_id \in Keys(mu) /\ Get(mu, user_id).unmute_time > t
    THEN Get(mu, user_id).unmute_time + total_minutes
    ELSE t + total_minutes

\* /mute: "unmute_time = datetime.now() + timedelta(minutes=total_minutes)"
MuteUntil(mu, user_id, t, total_minutes) == t + total_minutes

Mute(user_id, args) ==
    IF MuteRefused(banned_users, user_id)
    THEN /\ task' = Task("mute", user_id, "await_try_reply", "banned",
                         Msg("invoker", "user is banned, unban first", "", <<>>, 0, ""))
         /\ UNCHANGED regVars
    ELSE LET d      == IF Len(args) > 0 THEN args[1] ELSE <<"1", "h">>
             reason == IF Len(args) > 1 THEN args[2] ELSE DefaultMuteReason
             p      == MuteDuration(d)
             unmute_time == MuteUntil(muted_users, user_id, now, p.minutes)
         IN  /\ muted_users' = Put(muted_users, user_id, unmute_time, reason)
             /\ task' = Task("mute", user_id, "await_notify",
                             IF user_id \in Keys(muted_users) THEN "overwritten" ELSE "new",
                             Msg("target", "you were muted", reason, p.display,
                                 unmute_time, ""))
             /\ UNCHANGED banned_users

\* a faulty variant of Unmute: the notification is sent without the test
Unmute_notifies_absent(user_id) ==
    /\ muted_users' = IF user_id \in Keys(muted_users)
                      THEN Del(muted_users, user_id) ELSE muted_users
    /\ task' = Task("unmute", user_id, "await_notify", "removed",
                    Msg("target", "you were unmuted", "", <<>>, 0, ""))
    /\ UNCHANGED banned_users

Unmute(user_id) ==
    IF user_id \in Keys(muted_users)
    THEN /\ muted_users' = Del(muted_users, user_id)
         /\ task' = Task("unmute", user_id, "await_notify", "removed",
                         Msg("target", "you were unmuted", "", <<>>, 0, ""))
         /\ UNCHANGED banned_users
    ELSE /\ task' = Task("unmute", user_id, "await_try_reply", "absent",
                         Msg("invoker", "user is not muted", "", <<>>, 0, ""))
         /\ UNCHANGED regVars

Unban(user_id) ==
    IF user_id \in DOMAIN banned_users
    THEN /\ banned_users' = DelBan(banned_users, user_id)
         /\ task' = Task("unban", user_id, "await_notify", "removed",
                         Msg("target", "you were unbanned", "", <<>>, 0, ""))
         /\ UNCHANGED muted_users
    ELSE /\ task' = Task("unban", user_id, "await_try_reply", "absent",
                         Msg("invoker", "user is not banned", "", <<>>, 0, ""))
         /\ UNCHANGED regVars

HandleAdminCommands(reply_to, text) ==
    /\ Free
    /\ LET x == extract_user_id(reply_to)
       IN  IF ~x.ok
           THEN task' = ExtractErrorReply("command") /\ UNCHANGED regVars
           ELSE CASE text.command = "/ban"    -> Ban(x.user_id, text.args)
                  [] text.command = "/mute"   -> Mute(x.user_id, text.args)
                  [] text.command = "/unmute" -> Unmute(x.user_id)
                  [] text.command = "/unban"  -> Unban(x.user_id)
                  [] OTHER ->
                       /\ task' = Task("command", x.user_id, "await_reply", "unknown",
                                       Msg("invoker", "help", "", <<>>, 0, ""))
                       /\ UNCHANGED regVars
    /\ UNCHANGED <<now, sweepVars, parseVars>>

\* the kinds of task that run inside the try block of a command
Commands == {"ban", "mute", "unmute", "unban"}

\* a faulty variant of CommandErrorReply: the error is swallowed
CommandErrorReply_silent(t, err) == Done(t.kind)

\* the "except TelegramAPIError as e" reply of a command
CommandErrorReply(t, err) ==
    Task(t.kind, t.user, "await_reply", t.path,
         Msg("invoker", "command failed", "", <<>>, 0, err))

\* "await bot.send_message(chat_id=user_id, ...)" of a command returns:
\* the confirmation to the admin follows, or the except branch
NotifyReturns(result) ==
    /\ task.pc = "await_notify"
    /\ task' = IF result = "ok"
               THEN Task(task.kind, task.user, "await_try_reply", task.path,
                         Msg("invoker", "confirmed", "", task.msg.time, 0, ""))
               ELSE CommandErrorReply(task, result)
    /\ UNCHANGED <<now, regVars, sweepVars, parseVars>>

\* a reply to the admin made inside the try block returns
TryReplyReturns(result) ==
    /\ task.pc = "await_try_reply"
    /\ task' = IF result = "ok" THEN Done(task.kind)
               ELSE CommandErrorReply(task, result)
    /\ UNCHANGED <<now, regVars, sweepVars, parseVars>>

---------------------------------------------------------------------------
(* Calls that end a handler *)

\* a reply outside any try block returns: an error leaves the handler
ReplyReturns(result) ==
    /\ task.pc = "await_reply"
    /\ task' = IF result = "ok" THEN Done(task.kind) ELSE Raised(task.kind)
    /\ UNCHANGED <<now, regVars, sweepVars, parseVars>>

\* "await bot.send_message(chat_id=GROUP_ID, ...)" of send_message_to_group
\* returns; the call is in no try block
SendGroupReturns(result) ==
    /\ task.pc = "await_send_group"
    /\ task' = IF result = "ok" THEN Done(task.kind) ELSE Raised(task.kind)
    /\ UNCHANGED <<now, regVars, sweepVars, parseVars>>

\* "await message.copy_to(chat_id=GROUP_ID, ...)" of supported_media returns
CopyGroupReturns(result) ==
    /\ task.pc = "await_copy_group"
    /\ task' = IF result = "ok" THEN Done(task.kind)
               ELSE Task(task.kind, task.user, "await_reply", task.path,
                         Msg("sender", "media not sent", "", <<>>, 0, result))
    /\ UNCHANGED <<now, regVars, sweepVars, parseVars>>

\* "await message.copy_to(chat_id)" of send_message_answer returns
CopyUserReturns(result) ==
    /\ task.pc = "await_copy_user"
    /\ task' = IF result = "ok" THEN Done(task.kind)
               ELSE Task(task.kind, task.user, "await_reply", task.path,
                         Msg("invoker", "answer not sent", "", <<>>, 0, result))
    /\ UNCHANGED <<now, regVars, sweepVars, parseVars>>

---------------------------------------------------------------------------
(* check_mute_expirations, the background task *)

\* a faulty variant of IsExpired: the scan finds no record expired
IsExpired_never(t, unmute_time) == FALSE

\* "if current_time >= unmute_time"
IsExpired(t, unmute_time) == t >= unmute_time

\* the scan: the ids of the expired records, in the dict's iteration order
Collect(mu, t) ==
    LET sel == SelectSeq(mu, LAMBDA r : IsExpired(t, r.unmute_time))
    IN  [i \in DOMAIN sel |-> sel[i].user_id]

\* a faulty variant of SweepCaught: the exception ends the task
SweepCaught_fatal(mu, log) ==
    [sweep_pc |-> "dead", muted_users |-> mu, expired_users |-> <<>>,
     sweep_i |-> 0, sleep_left |-> 0, sweep_log |-> Append(log, "error")]

\* "except Exception as e": logger.error, then asyncio.sleep(60)
SweepCaught(mu, log) ==
    [sweep_pc |-> "sleep_err", muted_users |-> mu, expired_users |-> <<>>,
     sweep_i |-> 0, sleep_left |-> SleepInterval, sweep_log |-> Append(log, "error")]

\* The loop "for user_id in expired_users" from iteration i up to its next
\* await: the loop is over (sleep), or "del muted_users[user_id]" raises
\* KeyError, or the record is deleted and the notification is sent.  The
\* locals of a cycle (expired_users, the loop index, the log of its last
\* step) are dropped when the cycle ends in its sleep.
SweepLoop(list, i, mu, log) ==
    IF i > Len(list)
    THEN [sweep_pc |-> "sleep", muted_users |-> mu, expired_users |-> <<>>,
          sweep_i |-> 0, sleep_left |-> SleepInterval, sweep_log |-> <<>>]
    ELSE IF list[i] \notin Keys(mu)
    THEN SweepCaught(mu, log)
    ELSE [sweep_pc |-> "await_notify", muted_users |-> Del(mu, list[i]),
          expired_users |-> list, sweep_i |-> i, sleep_left |-> 0, sweep_log |-> log]

SweepSet(r) ==
    /\ sweep_pc' = r.sweep_pc
    /\ muted_users' = r.muted_users
    /\ expired_users' = r.expired_users
    /\ sweep_i' = r.sweep_i
    /\ sleep_left' = r.sleep_left
    /\ sweep_log' = r.sweep_log

\* the top of "while True": the scan and the loop up to the first await
SweepScan ==
    /\ sweep_pc = "scan"
    /\ SweepSet(SweepLoop(Collect(muted_users, now), 1, muted_users, <<>>))
    /\ UNCHANGED <<now, banned_users, task, parseVars>>

\* the notification returns (logger.info) or raises (logger.warning); the
\* loop goes on with the next collected user
SweepResume(result) ==
    /\ sweep_pc = "await_notify"
    /\ SweepSet(SweepLoop(expired_users, sweep_i + 1, muted_users,
                          IF result = "ok" THEN <<"info">> ELSE <<"warning">>))
    /\ UNCHANGED <<now, banned_users, task, parseVars>>

\* a faulty variant of SweepWake: the next scan does not wait for the sleep
SweepWake_early ==
    /\ sweep_pc \in {"sleep", "sleep_err"}
    /\ sweep_pc' = "scan"
    /\ sweep_log' = <<>>
    /\ sleep_left' = 0
    /\ UNCHANGED <<now, regVars, expired_users, sweep_i, task, parseVars>>

\* asyncio.sleep(60) is over: back to the top of "while True"
SweepWake ==
    /\ sweep_pc \in {"sleep", "sleep_err"}
    /\ sleep_left = 0
    /\ sweep_pc' = "scan"
    /\ sweep_log' = <<>>
    /\ UNCHANGED <<now, regVars, expired_users, sweep_i, sleep_left, task, parseVars>>

\* a minute passes
Tick ==
    /\ now' = IF now < MaxTime THEN now + 1 ELSE now
    /\ sleep_left' = IF sleep_left > 0 THEN sleep_left - 1 ELSE 0
    /\ UNCHANGED <<regVars, sweep_pc, expired_users, sweep_i, sweep_log, task, parseVars>>

---------------------------------------------------------------------------
(* Specifications *)

Init ==
    /\ now = 0
    /\ muted_users = <<>>
    /\ banned_users = <<>>
    /\ sweep_pc = "scan"
    /\ expired_users = <<>>
    /\ sweep_i = 0
    /\ sleep_left = 0
    /\ sweep_log = <<>>
    /\ task = Done("none")
    /\ duration_str = <<>>
    /\ parse_result = NotParsed

Sweeper == SweepScan \/ (\E r \in ApiResults : SweepResume(r)) \/ SweepWake

Next ==
    \/ Tick
    \/ SweepScan
    \/ \E r \in ApiResults : SweepResume(r)
    \/ SweepWake
    \/ \E u \in Users : CommandStart(u)
    \/ \E u \in Users, too_long \in BOOLEAN : SendMessageToGroup(u, too_long)
    \/ \E u \in Users, too_long \in BOOLEAN : SupportedMedia(u, too_long)
    \/ \E m \in ReplyTo : GetUserInfo(m)
    \/ \E r \in ApiResults : GetChatReturns(r)
    \/ \E m \in ReplyTo : SendMessageAnswer(m)
    \/ \E m \in ReplyTo, c \in CommandTexts : HandleAdminCommands(m, c)
    \/ \E r \in ApiResults : NotifyReturns(r)
    \/ \E r \in ApiResults : TryReplyReturns(r)
    \/ \E r \in ApiResults : ReplyReturns(r)
    \/ \E r \in ApiResults : SendGroupReturns(r)
    \/ \E r \in ApiResults : CopyGroupReturns(r)
    \/ \E r \in ApiResults : CopyUserReturns(r)

Spec == Init /\ [][Next]_vars

\* The event loop runs every ready task and timers fire: the sweeper takes
\* each step that stays enabled, and time passes.
FairSpec == Spec /\ WF_vars(Tick) /\ WF_vars(Sweeper)

\* parse_duration alone, on every string up to MaxLen characters
ParseInit ==
    /\ now = 0
    /\ muted_users = <<>>
    /\ banned_users = <<>>
    /\ sweep_pc = "scan"
    /\ expired_users = <<>>
    /\ sweep_i = 0
    /\ sleep_left = 0
    /\ sweep_log = <<>>
    /\ task = Done("none")
    /\ duration_str \in StrsUpTo(MaxLen)
    /\ parse_result = NotParsed

ParseCall ==
    /\ ~parse_result.returned
    /\ LET p == parse_duration(duration_str)
       IN  parse_result' = [returned |-> TRUE, minutes |-> p.minutes,
                            display |-> p.display]
    /\ UNCHANGED <<now, regVars, sweepVars, task, duration_str>>

ParseNext == ParseCall

ParseSpec == ParseInit /\ [][ParseNext]_vars

\* /mute alone, with every string up to MaxLen characters as its duration
\* argument (the first word after the command, never empty), given at any
\* time of the clock
MuteInit ==
    /\ now = 0
    /\ muted_users = <<>>
    /\ banned_users = <<>>
    /\ sweep_pc = "scan"
    /\ expired_users = <<>>
    /\ sweep_i = 0
    /\ sleep_left = 0
    /\ sweep_log = <<>>
    /\ task = Done("none")
    /\ duration_str \in StrsUpTo(MaxLen) \ {<<>>}
    /\ parse_result = NotParsed

MuteCall ==
    \E m \in ReplyTo :
        HandleAdminCommands(m, [command |-> "/mute", args |-> <<duration_str>>])

MuteNext == MuteCall \/ Tick

MuteSpec == MuteInit /\ [][MuteNext]_vars

---------------------------------------------------------------------------
(* Vocabulary of the properties *)

\* user_id has a mute record that has not run out at time t
ActiveMute(mu, user_id, t) ==
    user_id \in Keys(mu) /\ Get(mu, user_id).unmute_time > t

\* user_id has a record that has run out and is still in the dict
StaleMute(mu, user_id, t) ==
    user_id \in Keys(mu) /\ Get(mu, user_id).unmute_time <= t

\* this step starts a handler of one of the given kinds
Starts(kinds) == Free /\ task' # task /\ task'.kind \in kinds

\* this step is a step of the sweeper
SweeperStep == <<sweep_pc, sweep_i>>' # <<sweep_pc, sweep_i>>

\* the task has a forward to the staff group in flight
Forwarding(t) == t.pc \in {"await_send_group", "await_copy_group"}

\* the task has a message to the command's target in flight
Notifying(t) == t.msg.to = "target"

---------------------------------------------------------------------------
(* C1: a private text or media message is forwarded to the staff group only
   if, when the handler checks, the sender is not banned and has no
   unexpired mute record; a banned sender gets the ban reason and an
   actively muted sender gets the reason and the remaining time, and in
   both cases nothing is forwarded. *)
C1_RelayGate ==
    /\ [][Starts({"text", "media"}) =>
            LET u == task'.user
            IN  /\ Forwarding(task') =>
                      u \notin DOMAIN banned_users /\ ~ActiveMute(muted_users, u, now)
                /\ u \in DOMAIN banned_users =>
                      /\ task'.pc = "await_reply"
                      /\ task'.path = "banned"
                      /\ task'.msg = Msg("sender", "you are banned",
                                         banned_users[u], <<>>, 0, "")
                /\ (u \notin DOMAIN banned_users /\ ActiveMute(muted_users, u, now)) =>
                      /\ task'.pc = "await_reply"
                      /\ task'.path = "muted"
                      /\ task'.msg = Msg("sender", "you are muted",
                                         Get(muted_users, u).reason,
                                         TimeStr(Get(muted_users, u).unmute_time - now),
                                         0, "")]_vars
    /\ [](Forwarding(task) => task.path \in {"pass", "expired"})

C1_Witness ==
    task.kind \in {"text", "media"} /\ task.path = "muted" /\ task.pc = "await_reply"

(* C2: every record the sweeper deletes has unmute_time <= now when it is
   deleted; a record that has not run out, also one /mute wrote while the
   sweeper awaited a notification, is left alone. *)
C2_SweeperDeletesOnlyExpired ==
    [][SweeperStep =>
          \A u \in Keys(muted_users) \ Keys(muted_users') :
              Get(muted_users, u).unmute_time <= now]_vars

(* C3: right after /ban on u is processed, u is in banned_users, has no
   record in muted_users, and is_user_muted(u) is false, whatever the mute
   state of u was before. *)
C3_BanClearsMute ==
    [][Starts({"ban"}) /\ task'.pc = "await_notify" =>
          LET u == task'.user
          IN  /\ u \in DOMAIN banned_users'
              /\ u \notin Keys(muted_users')
              /\ ~is_user_muted(muted_users', u, now').ret]_vars

C3_Witness ==
    task.kind = "ban" /\ task.pc = "await_notify" /\ task.path = "mute cleared"

(* C4: right after /mute stores the record of a user who is not banned,
   is_user_muted(u) is true; once the clock has reached the record's
   unmute_time, is_user_muted(u) is false and removes the record, and a
   second call is false again and changes nothing. *)
C4_MuteThenExpire ==
    /\ [][Starts({"mute"}) /\ task'.pc = "await_notify" =>
            LET r == is_user_muted(muted_users', task'.user, now')
            IN  r.ret /\ r.muted_users = muted_users']_vars
    /\ [](\A u \in Users :
            StaleMute(muted_users, u, now) =>
                LET r1 == is_user_muted(muted_users, u, now)
                    r2 == is_user_muted(r1.muted_users, u, now)
                IN  /\ ~r1.ret
                    /\ u \notin Keys(r1.muted_users)
                    /\ ~r2.ret
                    /\ r2.muted_users = r1.muted_users)

C4_Witness ==
    task.kind \in {"start", "text", "media"} /\ task.path = "expired"

(* C5: every reader of a user's mute state (is_user_muted in /start and in
   the relay gate, the status of /info, the /unmute command) treats a
   record that has run out like no record: it reports the user as not
   muted, sends the user no unmute notification, and removes the record. *)
C5_StaleAsAbsent ==
    [][\A u \in Users :
          ( /\ StaleMute(muted_users, u, now)
            /\ u \notin DOMAIN banned_users
            /\ task'.user = u
            /\ \/ Starts({"start", "text", "media", "unmute"})
               \/ task.pc = "await_get_chat" /\ task'.pc = "await_reply"
                                             /\ task'.path # "not found" )
          => /\ u \notin Keys(muted_users')
             /\ ~Notifying(task')
             /\ task'.path \in {"expired", "absent"}
             /\ task'.msg.text \notin {"you are muted", "info: muted", "you were unmuted"}
      ]_vars

(* C6: /mute on a banned target replies with an error and stops: no mute
   record is created or changed, banned_users is unchanged, and the target
   gets no notification. *)
C6_MuteBannedRefused ==
    /\ [][Starts({"mute"}) /\ task'.user \in DOMAIN banned_users =>
            /\ task'.pc = "await_try_reply"
            /\ task'.msg = Msg("invoker", "user is banned, unban first", "", <<>>, 0, "")
            /\ UNCHANGED regVars]_vars
    /\ [][task.kind = "mute" /\ task.path = "banned" /\ task' # task =>
            /\ ~Notifying(task')
            /\ UNCHANGED regVars
            /\ task'.pc \in {"done", "await_reply", "raised"}]_vars

C6_Witness ==
    task.kind = "mute" /\ task.path = "banned" /\ task.pc = "await_try_reply"

\* the registry holds the effect of the command the task runs
Applied(t) ==
    CASE t.kind = "ban"    -> t.user \in DOMAIN banned_users
                              /\ banned_users[t.user] = t.msg.reason
      [] t.kind = "mute"   -> t.user \in Keys(muted_users)
                              /\ Get(muted_users, t.user).unmute_time = t.msg.until
                              /\ Get(muted_users, t.user).reason = t.msg.reason
      [] t.kind = "unmute" -> t.user \notin Keys(muted_users)
      [] t.kind = "unban"  -> t.user \notin DOMAIN banned_users
      [] OTHER -> FALSE

(* C7: /ban, /mute, /unmute and /unban change the registry before the
   notification of the target is attempted; when that notification fails
   with a transport error the change stays and the admin gets an error
   reply that carries the error text. *)
C7_MutationBeforeNotify ==
    /\ [][Starts(Commands) /\ task'.pc = "await_notify" => Applied(task)']_vars
    /\ [][task.pc = "await_notify" /\ task' # task =>
            /\ UNCHANGED regVars
            /\ \/ task' = Task(task.kind, task.user, "await_try_reply", task.path,
                               Msg("invoker", "confirmed", "", task.msg.time, 0, ""))
               \/ \E e \in ApiErrors :
                     task' = Task(task.kind, task.user, "await_reply", task.path,
                                  Msg("invoker", "command failed", "", <<>>, 0, e))
      ]_vars

C7_Witness ==
    /\ task.kind = "ban"
    /\ task.pc = "await_reply"
    /\ task.msg.text = "command failed"
    /\ task.msg.err \in ApiErrors
    /\ task.user \in DOMAIN banned_users

SweepPcs == {"scan", "await_notify", "sleep", "sleep_err"}

(* C8: the sweeper never ends: an exception in a sweep cycle is caught, the
   sweeper sleeps the same interval as after a clean cycle, and another
   cycle starts; under fairness a new cycle always begins again. *)
C8_SweeperNeverStops ==
    /\ [](sweep_pc \in SweepPcs)
    /\ [][sweep_pc # "sleep_err" /\ sweep_pc' = "sleep_err" =>
            sleep_left' = SleepInterval]_vars
    /\ [][sweep_pc # "sleep" /\ sweep_pc' = "sleep" =>
            sleep_left' = SleepInterval]_vars
    /\ []<>(sweep_pc = "scan")

C8_Witness == sweep_pc = "sleep_err" /\ sweep_log[Len(sweep_log)] = "error"

(* C9: a transport failure at a send or forward call of a handler (the
   forward of a text, the forward of a media message, the relay of an admin
   reply, the notification of a command's target) is caught in the handler
   and becomes an error reply; no handler ends with the exception. *)
C9_TransportCaught ==
    [][task.pc \in {"await_send_group", "await_copy_group", "await_copy_user",
                    "await_notify"} /\ task' # task =>
          \/ task'.pc \in {"done", "await_try_reply"}
          \/ task'.pc = "await_reply" /\ task'.msg.err \in ApiErrors]_vars

(* C10, as stated: for every input string parse_duration returns a minute
   count m with 1 <= m <= 1440. *)
C10_Original ==
    parse_result.returned =>
        1 <= parse_result.minutes /\ parse_result.minutes <= MaxMinutes

(* C10, amended: for every input string parse_duration returns a minute
   count m <= 1440, and m >= 1 unless the whole input is an integer v <= 0,
   for which it returns 60 * v. *)
C10_ParseBounds ==
    parse_result.returned =>
        /\ parse_result.minutes <= MaxMinutes
        /\ \/ parse_result.minutes >= 1
           \/ LET v == PyInt(duration_str)
              IN  v.ok /\ v.value <= 0
                       /\ parse_result.minutes = v.value * MinutesPerHour

C10_Witness ==
    parse_result.returned /\ parse_result.minutes <= 0

---------------------------------------------------------------------------
(* C11: /unmute on a user with no mute record and /unban on a user with no
   ban record change neither dict, send nothing to the target and answer the
   admin "not muted" / "not banned"; the target is notified only when a
   record was there and the command removed it. *)
C11_AbsentIsNoOp ==
    /\ [][Starts({"unmute"}) /\ task'.user \notin Keys(muted_users) =>
            /\ UNCHANGED regVars
            /\ task'.pc = "await_try_reply"
            /\ task'.msg.to = "invoker"
            /\ task'.msg.text = "user is not muted"]_vars
    /\ [][Starts({"unban"}) /\ task'.user \notin DOMAIN banned_users =>
            /\ UNCHANGED regVars
            /\ task'.pc = "await_try_reply"
            /\ task'.msg.to = "invoker"
            /\ task'.msg.text = "user is not banned"]_vars
    /\ [][Starts({"unmute"}) /\ Notifying(task') =>
            /\ task'.user \in Keys(muted_users)
            /\ task'.user \notin Keys(muted_users')
            /\ UNCHANGED banned_users]_vars
    /\ [][Starts({"unban"}) /\ Notifying(task') =>
            /\ task'.user \in DOMAIN banned_users
            /\ task'.user \notin DOMAIN banned_users'
            /\ UNCHANGED muted_users]_vars
    /\ [](task.kind \in {"unmute", "unban"} /\ task.path = "absent" =>
            ~Notifying(task))

\* the "not muted" answer is in flight while the other user holds a record
C11_Witness ==
    /\ task.kind = "unmute"
    /\ task.path = "absent"
    /\ task.msg.text = "user is not muted"
    /\ muted_users # <<>>

---------------------------------------------------------------------------
\* the two sleeps of the sweeper
Sleeping(pc) == pc \in {"sleep", "sleep_err"}

(* C12 as stated: the sweeper starts asleep, so no scan of muted_users is
   made before one sleep interval has passed since the task was started. *)
C12_Original ==
    [][sweep_pc = "scan" /\ sweep_pc' # "scan" => now >= SleepInterval]_vars

(* C12, amended: the sweeper starts at the top of its loop, so its first scan
   is made as soon as the task runs, with no sleep before it; every later
   scan follows a sleep that began with a full interval and that only the
   passing of time shortens. *)
C12_ScanThenSleep ==
    /\ (sweep_pc = "scan" /\ sleep_left = 0)
    /\ [][sweep_pc' = "scan" /\ sweep_pc # "scan" =>
            Sleeping(sweep_pc) /\ sleep_left = 0]_vars
    /\ [][Sleeping(sweep_pc') /\ ~Sleeping(sweep_pc) =>
            sleep_left' = SleepInterval]_vars
    /\ [][Sleeping(sweep_pc) /\ sleep_left' # sleep_left =>
            /\ sleep_left' = sleep_left - 1
            /\ now' = now + 1 \/ now = MaxTime
            /\ sweep_pc' = sweep_pc]_vars

\* the first scan is over and the sweeper is in its first sleep, no time
\* having passed since the task was started
C12_Witness ==
    /\ now = 0
    /\ sweep_pc = "sleep"
    /\ sleep_left = SleepInterval

---------------------------------------------------------------------------
(* C13: in every sweep cycle, whatever handlers run during the sweeper's
   notification awaits, the removal loop runs to its end for all collected
   users: after each notification the sweeper evicts the next collected user,
   who is then absent from muted_users, and after the last one it goes to
   its regular sleep; no cycle is cut short in the error handler. *)
C13_SweepCompletes ==
    [][sweep_pc = "await_notify" /\ SweeperStep =>
          IF sweep_i < Len(expired_users)
          THEN /\ sweep_pc' = "await_notify"
               /\ expired_users' = expired_users
               /\ sweep_i' = sweep_i + 1
               /\ expired_users[sweep_i'] \notin Keys(muted_users')
          ELSE /\ sweep_pc' = "sleep"
               /\ UNCHANGED muted_users]_vars

---------------------------------------------------------------------------
(* C14: when the sweeper and the clock keep running, every mute record whose
   unmute time has passed is eventually removed from muted_users or replaced
   by a newer /mute, also when no handler ever reads that user and when sweep
   cycles end in the error handler.  "A stale record leads to its absence",
   P ~> ~P, is written in its equivalent form []<>~P: at every moment, a
   moment follows at which the user holds no record that has run out. *)
C14_StaleEventuallyRemoved ==
    \A u \in Users : []<>(~StaleMute(muted_users, u, now))

\* a cycle was cut short by an error while a record that has run out is
\* still in the dict
C14_Witness ==
    /\ sweep_pc = "sleep_err"
    /\ \E u \in Users : StaleMute(muted_users, u, now)

---------------------------------------------------------------------------
\* this sweeper step follows a notification that failed (logger.warning)
\* and was not the last of its cycle
AfterFailedNotification ==
    /\ sweep_pc = "await_notify"
    /\ SweeperStep
    /\ sweep_log' # <<>>
    /\ Head(sweep_log') = "warning"

(* C15: when the auto-unmute notification to an evicted user fails, the
   sweeper puts no record back and does not abort the cycle: its next step
   evicts the next collected user and sends that user's notification, and
   the loop index only moves forward, so no evicted record is notified
   twice. *)
C15_NotifyFailureContinues ==
    [][AfterFailedNotification =>
          /\ \A u \in Keys(muted_users') : u \in Keys(muted_users)
          /\ sweep_pc' = "await_notify"
          /\ expired_users' = expired_users
          /\ sweep_i' = sweep_i + 1
          /\ expired_users[sweep_i'] \in Keys(muted_users)
          /\ expired_users[sweep_i'] \notin Keys(muted_users')]_vars

---------------------------------------------------------------------------
(* C16: in every reachable state, whatever /ban, /mute, /unmute, /unban,
   reads and sweeps have run and however they interleaved, no user id is a
   key of both banned_users and muted_users. *)
C16_BanMuteDisjoint ==
    \A u \in Users : ~(u \in DOMAIN banned_users /\ u \in Keys(muted_users))

\* one user is banned, the other is muted, and the sweeper is in mid-cycle
C16_Witness ==
    /\ DOMAIN banned_users # {}
    /\ Keys(muted_users) # {}
    /\ sweep_pc = "await_notify"

---------------------------------------------------------------------------
(* C17: in the /start, text and media handlers, whenever is_user_muted(u)
   has returned true the lookup muted_users[u] that follows finds the
   record: neither the sweeper nor an admin /unmute or /ban can remove it
   between the check and the read, so no handler is left by a KeyError, and
   the reason shown to the sender is the one of the record in the dict. *)
C17_LookupAfterCheck ==
    /\ [](task.path # "KeyError")
    /\ [][Starts({"start", "text", "media"}) /\ task'.path = "muted" =>
            /\ task'.user \in Keys(muted_users')
            /\ task'.msg.reason = Get(muted_users', task'.user).reason
            /\ UNCHANGED muted_users]_vars

\* /start of a muted user has read the record while the sweeper is between
\* two evictions of a cycle
C17_Witness ==
    /\ task.kind = "start"
    /\ task.path = "muted"
    /\ task.user \in Keys(muted_users)
    /\ sweep_pc = "await_notify"

---------------------------------------------------------------------------
(* C18: a /mute on a user who already has a mute record replaces it: the
   user still has one record, its unmute time is the current time plus the
   minutes parsed from this command's duration, its reason is this
   command's reason, and the time left of the previous mute is not added;
   the records of other users are untouched. *)
C18_MuteOverwrites ==
    [][Starts({"mute"}) /\ task'.pc = "await_notify"
                        /\ task'.user \in Keys(muted_users) =>
          LET u == task'.user
              r == Get(muted_users', u)
          IN  /\ Len(muted_users') = Len(muted_users)
              /\ r.reason = task'.msg.reason
              /\ r.reason \in ReasonArgs \cup {DefaultMuteReason}
              /\ r.unmute_time = task'.msg.until
              /\ \E d \in MuteDurationArgs \cup {<<"1", "h">>} :
                     /\ MuteDuration(d).display = task'.msg.time
                     /\ r.unmute_time = now + MuteDuration(d).minutes
              /\ \A v \in Keys(muted_users) \ {u} :
                     v \in Keys(muted_users')
                     /\ Get(muted_users', v) = Get(muted_users, v)]_vars

\* a one-minute mute with a reason given has just replaced the record of a
\* user who was already in the dict
C18_Witness ==
    /\ task.kind = "mute"
    /\ task.path = "overwritten"
    /\ task.pc = "await_notify"
    /\ task.msg.reason = "spam"
    /\ task.msg.until = now + 1
    /\ Get(muted_users, task.user).unmute_time = now + 1

---------------------------------------------------------------------------
(* C19: whatever duration argument the admin gives to /mute (zero, negative,
   oversized, unparseable or well-formed), the record the command stores has
   creation time + 1 minute <= unmute time <= creation time + 1440 minutes. *)
C19_StoredMuteBounds ==
    [][Starts({"mute"}) /\ task'.pc = "await_notify" =>
          LET r == Get(muted_users', task'.user)
          IN  /\ now + 1 <= r.unmute_time
              /\ r.unmute_time <= now + MaxMinutes]_vars

\* a negative number was given as the duration and the record stored is the
\* one-hour default
C19_Witness ==
    /\ PyInt(duration_str).ok
    /\ PyInt(duration_str).value < 0
    /\ task.kind = "mute"
    /\ task.pc = "await_notify"
    /\ task.msg.until = now + DefaultMinutes
    /\ Get(muted_users, task.user).unmute_time = now + DefaultMinutes

---------------------------------------------------------------------------
\* the hour and minute tokens found in s, hours first
MatchedParts(s) ==
    LET hours_match   == ReSearch(s, "h")
        minutes_match == ReSearch(s, "m")
    IN  (IF hours_match.matched THEN <<Part(hours_match.group, "h")>> ELSE <<>>)
        \o (IF minutes_match.matched THEN <<Part(minutes_match.group, "m")>> ELSE <<>>)

(* C20: the display string parse_duration returns is made of the tokens
   matched in the input and nothing else, hours before minutes; when no
   token is matched it is the bare integer as hours, or the default marker
   alone ("1 hour" for the empty string, "1h" for an unparseable one).  A
   matched token is never joined with the default marker. *)
C20_DisplayOnlyMatched ==
    parse_result.returned =>
        LET matched == MatchedParts(duration_str)
            v       == PyInt(duration_str)
        IN  IF matched # <<>> THEN parse_result.display = matched
            ELSE IF duration_str = <<>>
            THEN parse_result.display = <<Part(1, "hour")>>
            ELSE IF v.ok THEN parse_result.display = <<Part(v.value, "h")>>
            ELSE parse_result.display = <<Part(1, "h")>>

=============================================================================
